---------------------------- MODULE Spec2Model ----------------------------
(***************************************************************************)
(* Cross-Section Consistency Analyzer (consistency_model.py), and the     *)
(* retry loop of call_gemini_api (rewrite_model.py).                       *)
(*                                                                         *)
(* Texts are TLA+ strings; a character is a string of length 1.  Emoji     *)
(* prefixes of the verdicts and report lines are left out of the literals  *)
(* (the lexer does not take them); every other character is kept.          *)
(* A Python float is held as its exact decimal value [ip, fp] (integer and *)
(* fraction digits, normalised), which is what str() prints for the values *)
(* in range here (no exponent form, no binary rounding of the quotient).   *)
(***************************************************************************)
EXTENDS Integers, Sequences, FiniteSets, TLC

VARIABLES pc, CONTEXTS, document, sentences, pos, results, contradictions,
          summary_lines, issues_report, oracle_log, calls,
          sent1, sent2, numeric_result,
          nli_model, first_call,
          attempt, delay, http_log, sleeps, api_result

vars == <<pc, CONTEXTS, document, sentences, pos, results, contradictions,
          summary_lines, issues_report, oracle_log, calls,
          sent1, sent2, numeric_result,
          nli_model, first_call,
          attempt, delay, http_log, sleeps, api_result>>

\* the state of consistency_model.py
analysis_vars == <<pc, CONTEXTS, document, sentences, pos, results, contradictions,
                   summary_lines, issues_report, oracle_log, calls,
                   sent1, sent2, numeric_result>>

\* the classifier behind nli_pipeline and what the first of two calls returned
rerun_vars == <<nli_model, first_call>>

\* the locals of call_gemini_api (rewrite_model.py) and what it did to the outside
gemini_vars == <<attempt, delay, http_log, sleeps, api_result>>

\* Python None where a float is expected (no float has empty integer digits)
None == [ip |-> "", fp |-> ""]

(***************************************************************************)
(* str primitives                                                          *)
(***************************************************************************)
Char(s, i) == IF i >= 1 /\ i <= Len(s) THEN SubSeq(s, i, i) ELSE ""

UpperAlpha == "ABCDEFGHIJKLMNOPQRSTUVWXYZ"
LowerAlpha == "abcdefghijklmnopqrstuvwxyz"

LowerChar(c) ==
    IF \E k \in 1..26 : Char(UpperAlpha, k) = c
    THEN Char(LowerAlpha, CHOOSE k \in 1..26 : Char(UpperAlpha, k) = c)
    ELSE c

RECURSIVE Lower(_)
Lower(s) == IF s = "" THEN "" ELSE LowerChar(Char(s, 1)) \o Lower(Tail(s))

IsSpace(c) == c \in {" ", "\t", "\n", "\r"}

RECURSIVE LStrip(_)
LStrip(s) == IF s # "" /\ IsSpace(Char(s, 1)) THEN LStrip(Tail(s)) ELSE s

RECURSIVE RStrip(_)
RStrip(s) ==
    IF s # "" /\ IsSpace(Char(s, Len(s)))
    THEN RStrip(SubSeq(s, 1, Len(s) - 1))
    ELSE s

Strip(s) == RStrip(LStrip(s))

\* needle in hay
Contains(hay, needle) ==
    \E i \in 1..(Len(hay) - Len(needle) + 1) :
        SubSeq(hay, i, i + Len(needle) - 1) = needle

\* text.replace(c, '') for a single character c
RECURSIVE Remove(_, _)
Remove(s, c) ==
    IF s = "" THEN ""
    ELSE IF Char(s, 1) = c THEN Remove(Tail(s), c)
    ELSE Char(s, 1) \o Remove(Tail(s), c)

\* "\n".join(lines)
RECURSIVE Join(_)
Join(lines) ==
    IF lines = <<>> THEN ""
    ELSE IF Len(lines) = 1 THEN lines[1]
    ELSE lines[1] \o "\n" \o Join(Tail(lines))

(***************************************************************************)
(* The five patterns of detect_numeric_mismatch, as re.findall reads them: *)
(* leftmost match at each scan position, greedy, matches not overlapping.  *)
(* MatchEnd gives the index just past the match that starts at i, or 0.    *)
(***************************************************************************)
IsDigit(c) == c \in {"0", "1", "2", "3", "4", "5", "6", "7", "8", "9"}

\* \d+ : index past the longest run of digits from i (i itself when none)
RECURSIVE DigitsEnd(_, _)
DigitsEnd(s, i) == IF IsDigit(Char(s, i)) THEN DigitsEnd(s, i + 1) ELSE i

\* (?:,\d{3})* from e
RECURSIVE GroupsEnd(_, _)
GroupsEnd(s, e) ==
    IF /\ Char(s, e) = ","
       /\ IsDigit(Char(s, e + 1)) /\ IsDigit(Char(s, e + 2)) /\ IsDigit(Char(s, e + 3))
    THEN GroupsEnd(s, e + 4)
    ELSE e

\* (?:\.\d+)? from e
FractionEnd(s, e) ==
    IF Char(s, e) = "." /\ IsDigit(Char(s, e + 1)) THEN DigitsEnd(s, e + 1) ELSE e

\* \d+(?:,\d{3})*(?:\.\d+)?
PlainEnd(s, i) ==
    IF DigitsEnd(s, i) = i THEN 0
    ELSE FractionEnd(s, GroupsEnd(s, DigitsEnd(s, i)))

\* \d+(?:\.\d+)?%
PercentEnd(s, i) ==
    IF DigitsEnd(s, i) = i THEN 0
    ELSE IF Char(s, FractionEnd(s, DigitsEnd(s, i))) = "%"
         THEN FractionEnd(s, DigitsEnd(s, i)) + 1
         ELSE 0

\* <symbol>\d+(?:,\d{3})*(?:\.\d+)?
CurrencyEnd(sym, s, i) == IF Char(s, i) = sym THEN PlainEnd(s, i + 1) ELSE 0

patterns == <<"plain", "percent", "dollar", "euro", "pound">>

MatchEnd(p, s, i) ==
    CASE p = "plain"   -> PlainEnd(s, i)
      [] p = "percent" -> PercentEnd(s, i)
      [] p = "dollar"  -> CurrencyEnd("$", s, i)
      [] p = "euro"    -> CurrencyEnd("€", s, i)
      [] p = "pound"   -> CurrencyEnd("£", s, i)

\* re.findall(pattern, s) scanning from i
RECURSIVE FindAllFrom(_, _, _)
FindAllFrom(p, s, i) ==
    IF i > Len(s) THEN <<>>
    ELSE IF MatchEnd(p, s, i) # 0
         THEN <<SubSeq(s, i, MatchEnd(p, s, i) - 1)>> \o FindAllFrom(p, s, MatchEnd(p, s, i))
         ELSE FindAllFrom(p, s, i + 1)

FindAll(p, s) == FindAllFrom(p, s, 1)

\* nums = []; for pattern in patterns: nums.extend(re.findall(pattern, sent))
RECURSIVE ExtractFrom(_, _)
ExtractFrom(k, sent) ==
    IF k > Len(patterns) THEN <<>>
    ELSE FindAll(patterns[k], sent) \o ExtractFrom(k + 1, sent)

ExtractNumbers(sent) == ExtractFrom(1, sent)

(***************************************************************************)
(* convert_to_number                                                       *)
(***************************************************************************)
number_words ==
    [w \in {"zero", "one", "two", "three", "four", "five", "six", "seven", "eight",
            "nine", "ten", "hundred", "thousand", "million", "billion"} |->
        CASE w = "zero" -> "0" [] w = "one" -> "1" [] w = "two" -> "2"
          [] w = "three" -> "3" [] w = "four" -> "4" [] w = "five" -> "5"
          [] w = "six" -> "6" [] w = "seven" -> "7" [] w = "eight" -> "8"
          [] w = "nine" -> "9" [] w = "ten" -> "10" [] w = "hundred" -> "100"
          [] w = "thousand" -> "1000" [] w = "million" -> "1000000"
          [] w = "billion" -> "1000000000"]

RECURSIVE StripLeadingZeros(_)
StripLeadingZeros(d) ==
    IF Len(d) > 1 /\ Char(d, 1) = "0" THEN StripLeadingZeros(Tail(d)) ELSE d

RECURSIVE StripTrailingZeros(_)
StripTrailingZeros(d) ==
    IF d # "" /\ Char(d, Len(d)) = "0"
    THEN StripTrailingZeros(SubSeq(d, 1, Len(d) - 1))
    ELSE d

\* the float with integer digits ip and fraction digits fp
Float(ip, fp) == [ip |-> StripLeadingZeros(ip), fp |-> StripTrailingZeros(fp)]

\* float(text) for the literals digits[.digits]; None stands for ValueError
ParseFloat(text) ==
    LET e == DigitsEnd(text, 1) IN
    IF e = 1 THEN None
    ELSE IF e = Len(text) + 1 THEN Float(text, "")
    ELSE IF Char(text, e) = "." /\ DigitsEnd(text, e + 1) = Len(text) + 1
         THEN Float(SubSeq(text, 1, e - 1), SubSeq(text, e + 1, Len(text)))
         ELSE None

\* x / 100
Div100(x) ==
    LET padded == "00" \o x.ip IN
    Float(SubSeq(padded, 1, Len(padded) - 2),
          SubSeq(padded, Len(padded) - 1, Len(padded)) \o x.fp)

convert_to_number(raw) ==
    LET text  == Strip(Lower(raw))
        clean == Remove(Remove(Remove(Remove(text, "$"), "€"), "£"), ",")
    IN  IF text \in DOMAIN number_words THEN Float(number_words[text], "")
        ELSE IF Contains(clean, "%")
             THEN IF ParseFloat(Remove(clean, "%")) = None THEN None
                  ELSE Div100(ParseFloat(Remove(clean, "%")))
             ELSE ParseFloat(clean)

\* str(x) of a float
FloatStr(x) == x.ip \o "." \o (IF x.fp = "" THEN "0" ELSE x.fp)


(***************************************************************************)
(* CONTEXTS and initialize_contexts                                        *)
(***************************************************************************)
\* As context_order, with the contexts listed the other way round.
context_order_reversed == <<"performance", "temporal", "financial">>

\* iteration order of the CONTEXTS dict (insertion order of its keys)
context_order == <<"financial", "temporal", "performance">>

\* the CONTEXTS literal, before initialize_contexts has run
CONTEXTS_literal ==
    [c \in {"financial", "temporal", "performance"} |->
        CASE c = "financial" ->
               [units    |-> <<"$", "USD", "PKR", "€", "£">>,
                keywords |-> <<"budget", "cost", "price", "total", "expense", "fund",
                               "payment", "revenue", "profit", "loss">>,
                synonyms |-> {}]
          [] c = "temporal" ->
               [units    |-> <<"month", "day", "year", "week", "quarter">>,
                keywords |-> <<"deadline", "timeline", "duration", "schedule", "plan",
                               "milestone">>,
                synonyms |-> {}]
          [] c = "performance" ->
               [units    |-> <<"%", "percent">>,
                keywords |-> <<"KPI", "metric", "performance", "target", "goal",
                               "achievement">>,
                synonyms |-> {}]]

Range(f) == {f[x] : x \in DOMAIN f}

AllKeywords == UNION {Range(CONTEXTS_literal[c].keywords) : c \in DOMAIN CONTEXTS_literal}

\* The lexical database: the lemma names of the synsets of a word.  An excerpt
\* standing for WordNet: a few keywords have further lemmas, "KPI" has no
\* synset, every other keyword has itself as its only lemma.
wordnet ==
    [w \in AllKeywords |->
        CASE w = "cost"     -> {"cost", "price", "toll", "Monetary_value"}
          [] w = "schedule" -> {"schedule", "agenda"}
          [] w = "target"   -> {"target", "aim"}
          [] w = "KPI"      -> {}
          [] OTHER          -> {w}]

get_synonyms(word) == {Lower(lemma) : lemma \in wordnet[word]}

\* CONTEXTS after initialize_contexts() on the dict ctx
initialize_contexts(ctx) ==
    [c \in DOMAIN ctx |->
        [ctx[c] EXCEPT !.synonyms =
            @ \cup UNION {get_synonyms(keyword) : keyword \in Range(ctx[c].keywords)}]]

(***************************************************************************)
(* The texts of the model: the chunks the sentence tokenizer hands back    *)
(* for the documents analysed, and the sentences the detector is run on.   *)
(***************************************************************************)
Chunks ==
    { "The budget is $5,000.",
      " The total budget is $6,000. ",
      "Inconsistencies detected: the cost is 5000.",
      "  " }

DetectSentences ==
    { "The budget is $5,000.",
      "The total budget is $6,000.",
      "The deadline is 3 months away.",
      "The schedule slipped by 4 weeks.",
      "The KPI deadline is 45% in 2 weeks.",
      "Budget: 3 months, $5,000.",
      "KPI target is 45%.",
      "Our aim is 50 percent.",
      "Budget of 5000 for 3 months.",
      "The toll is 7 per day, and 45%.",
      "Profit rose 4 percent this year.",
      "We hired 3 employees.",
      "The project finished successfully.",
      "The price stays the same.",
      "It costs 3 and 5,000.00 today." }

Texts == {Strip(c) : c \in Chunks} \cup DetectSentences

\* every term initialize_contexts can put into CONTEXTS
Vocabulary ==
    UNION {Range(CONTEXTS_literal[c].units) \cup Range(CONTEXTS_literal[c].keywords)
              : c \in DOMAIN CONTEXTS_literal}
    \cup UNION {get_synonyms(w) : w \in AllKeywords}

(***************************************************************************)
(* detect_numeric_mismatch                                                 *)
(***************************************************************************)
\* [str(convert_to_number(n)) for n in nums if convert_to_number(n) is not None]
RECURSIVE ConvertAll(_)
ConvertAll(nums) ==
    IF nums = <<>> THEN <<>>
    ELSE IF convert_to_number(nums[1]) = None THEN ConvertAll(Tail(nums))
    ELSE <<FloatStr(convert_to_number(nums[1]))>> \o ConvertAll(Tail(nums))

nums_conv(sent) == ConvertAll(ExtractNumbers(sent))

\* term.lower() in sent.lower()
TermIn(term, sent) == Contains(Lower(sent), Lower(term))

\* nums_conv and TermIn, tabulated once over the texts and terms of the model
NumsConvOf == [s \in Texts |-> nums_conv(s)]
TermsIn == [s \in Texts |-> {t \in Vocabulary : TermIn(t, s)}]

\* any(term.lower() in sent.lower() for term in all_terms)
has_context(sent, all_terms) == \E term \in all_terms : term \in TermsIn[sent]

all_terms_of(context_data) ==
    Range(context_data.units) \cup Range(context_data.keywords) \cup context_data.synonyms

\* repr of a set of str; the order of the elements is the one the set iterates in
RECURSIVE ReprElems(_)
ReprElems(S) ==
    IF S = {} THEN ""
    ELSE LET x == CHOOSE y \in S : TRUE
         IN  "'" \o x \o "'" \o (IF S = {x} THEN "" ELSE ", " \o ReprElems(S \ {x}))

SetRepr(S) == IF S = {} THEN "set()" ELSE "{" \o ReprElems(S) \o "}"

\* As ScanContexts, with the first sentence tested twice for context instead of
\* each sentence once.
RECURSIVE ScanContextsFirstOnly(_, _, _, _, _, _)
ScanContextsFirstOnly(ctx, k, s1, s2, n1, n2) ==
    IF k > Len(context_order)
    THEN [mismatch |-> FALSE, reason |-> "No contextual numeric mismatch detected"]
    ELSE LET context_name == context_order[k]
             all_terms    == all_terms_of(ctx[context_name])
         IN  IF has_context(s1, all_terms) /\ has_context(s1, all_terms) /\ n1 # n2
             THEN [mismatch |-> TRUE,
                   reason   |-> "Numeric mismatch in " \o context_name \o " context: "
                                \o SetRepr(n1) \o " vs " \o SetRepr(n2)]
             ELSE ScanContextsFirstOnly(ctx, k + 1, s1, s2, n1, n2)

\* the loop over CONTEXTS.items() from the k-th context on
\* As ScanContexts, with the result assigned in the loop instead of returned: every
\* context overwrites it, so the last context's check is the one that stands.
ScanContextsOverwrite(ctx, k, s1, s2, n1, n2) ==
    LET context_name == context_order[Len(context_order)]
        all_terms    == all_terms_of(ctx[context_name])
    IN  IF has_context(s1, all_terms) /\ has_context(s2, all_terms) /\ n1 # n2
        THEN [mismatch |-> TRUE,
              reason   |-> "Numeric mismatch in " \o context_name \o " context: "
                           \o SetRepr(n1) \o " vs " \o SetRepr(n2)]
        ELSE [mismatch |-> FALSE, reason |-> "No contextual numeric mismatch detected"]

RECURSIVE ScanContexts(_, _, _, _, _, _)
ScanContexts(ctx, k, s1, s2, n1, n2) ==
    IF k > Len(context_order)
    THEN [mismatch |-> FALSE, reason |-> "No contextual numeric mismatch detected"]
    ELSE LET context_name == context_order[k]
             all_terms    == all_terms_of(ctx[context_name])
         IN  IF has_context(s1, all_terms) /\ has_context(s2, all_terms) /\ n1 # n2
             THEN [mismatch |-> TRUE,
                   reason   |-> "Numeric mismatch in " \o context_name \o " context: "
                                \o SetRepr(n1) \o " vs " \o SetRepr(n2)]
             ELSE ScanContexts(ctx, k + 1, s1, s2, n1, n2)

\* As detect_numeric_mismatch, returning early only when neither sentence has a
\* number.
detect_numeric_mismatch_both_empty(ctx, s1, s2) ==
    IF NumsConvOf[s1] = <<>> /\ NumsConvOf[s2] = <<>>
    THEN [mismatch |-> FALSE, reason |-> "No numbers to compare"]
    ELSE ScanContexts(ctx, 1, s1, s2, Range(NumsConvOf[s1]), Range(NumsConvOf[s2]))

detect_numeric_mismatch(ctx, s1, s2) ==
    IF NumsConvOf[s1] = <<>> \/ NumsConvOf[s2] = <<>>
    THEN [mismatch |-> FALSE, reason |-> "No numbers to compare"]
    ELSE ScanContexts(ctx, 1, s1, s2, Range(NumsConvOf[s1]), Range(NumsConvOf[s2]))

(***************************************************************************)
(* The entailment oracle (nli_pipeline) and check_consistency              *)
(***************************************************************************)
\* What one call nli_pipeline(combined_input)[0] can do: return a label of the
\* model's vocabulary with a score (in 1/10000), or raise.
OracleReplies ==
    { [raised |-> FALSE, label |-> "ENTAILMENT",    score |-> 9876, error |-> ""],
      [raised |-> FALSE, label |-> "CONTRADICTION", score |-> 9124, error |-> ""],
      [raised |-> FALSE, label |-> "NEUTRAL",       score |-> 5432, error |-> ""],
      [raised |-> TRUE,  label |-> "",              score |-> 0,
       error  |-> "model not initialized"] }

\* Classifiers that answer the same input the same way every time: three that give
\* one label whatever the input, one whose every call raises, and one that goes by
\* the text of the input.
nli_models == {"entails", "contradicts", "neutral", "down", "lexical"}

LabelReply(label) == CHOOSE r \in OracleReplies : ~r.raised /\ r.label = label
RaisedReply == CHOOSE r \in OracleReplies : r.raised

\* nli_pipeline(combined_input)[0] with the classifier m loaded, where
\* combined_input = f"{sentence1} </s> {sentence2}"
nli_pipeline(m, sentence1, sentence2) ==
    CASE m = "entails"     -> LabelReply("ENTAILMENT")
      [] m = "contradicts" -> LabelReply("CONTRADICTION")
      [] m = "neutral"     -> LabelReply("NEUTRAL")
      [] m = "down"        -> RaisedReply
      [] m = "lexical"     ->
           IF sentence1 = sentence2 THEN LabelReply("ENTAILMENT")
           ELSE IF Contains(sentence1, "total") THEN RaisedReply
           ELSE IF Contains(sentence1 \o " </s> " \o sentence2, "Inconsistencies")
                THEN LabelReply("CONTRADICTION")
           ELSE LabelReply("NEUTRAL")

\* round(score, 3), in 1/1000
Round3(score) ==
    LET q == score \div 10
        r == score % 10
    IN  IF r > 5 \/ (r = 5 /\ q % 2 = 1) THEN q + 1 ELSE q

\* As classify, with the oracle's label tested before the numeric result.
classify_label_first(sentence1, sentence2, reply, numeric) ==
    [sentence1  |-> sentence1,
     sentence2  |-> sentence2,
     confidence |-> Round3(reply.score),
     numeric_analysis |-> numeric,
     verdict    |-> IF reply.label = "CONTRADICTION" THEN "Logical Contradiction"
                    ELSE IF reply.label = "ENTAILMENT" THEN "Consistent"
                    ELSE IF numeric.mismatch THEN "Numeric Mismatch"
                    ELSE "Neutral",
     label      |-> IF reply.label = "CONTRADICTION" THEN "CONTRADICTION"
                    ELSE IF reply.label = "ENTAILMENT" THEN "ENTAILMENT"
                    ELSE IF numeric.mismatch THEN "CONTRADICTION"
                    ELSE "NEUTRAL",
     suggestion |-> IF reply.label = "CONTRADICTION"
                    THEN "These statements express conflicting information."
                    ELSE IF reply.label = "ENTAILMENT"
                    THEN "Statements are logically and numerically consistent."
                    ELSE IF numeric.mismatch
                    THEN "Inconsistency detected: " \o numeric.reason
                    ELSE "No clear logical relation or numeric inconsistency detected."]

\* the body of the try block once detect_numeric_mismatch and the oracle have
\* returned
classify(sentence1, sentence2, reply, numeric) ==
    IF numeric.mismatch
    THEN [sentence1  |-> sentence1,
          sentence2  |-> sentence2,
          confidence |-> Round3(reply.score),
          numeric_analysis |-> numeric,
          verdict    |-> "Numeric Mismatch",
          label      |-> "CONTRADICTION",
          suggestion |-> "Inconsistency detected: " \o numeric.reason]
    ELSE IF reply.label = "CONTRADICTION"
    THEN [sentence1  |-> sentence1,
          sentence2  |-> sentence2,
          confidence |-> Round3(reply.score),
          numeric_analysis |-> numeric,
          verdict    |-> "Logical Contradiction",
          label      |-> "CONTRADICTION",
          suggestion |-> "These statements express conflicting information."]
    ELSE IF reply.label = "ENTAILMENT"
    THEN [sentence1  |-> sentence1,
          sentence2  |-> sentence2,
          confidence |-> Round3(reply.score),
          numeric_analysis |-> numeric,
          verdict    |-> "Consistent",
          label      |-> "ENTAILMENT",
          suggestion |-> "Statements are logically and numerically consistent."]
    ELSE [sentence1  |-> sentence1,
          sentence2  |-> sentence2,
          confidence |-> Round3(reply.score),
          numeric_analysis |-> numeric,
          verdict    |-> "Neutral",
          label      |-> "NEUTRAL",
          suggestion |-> "No clear logical relation or numeric inconsistency detected."]

\* the except branch: the oracle raised e
error_result(sentence1, sentence2, e) ==
    [sentence1  |-> sentence1,
     sentence2  |-> sentence2,
     verdict    |-> "Error: " \o e,
     label      |-> "ERROR",
     confidence |-> 0,
     suggestion |-> "Check input formatting or model initialization.",
     numeric_analysis |-> [mismatch |-> FALSE, reason |-> "Error in analysis"]]

check_consistency(ctx, sentence1, sentence2, reply) ==
    IF reply.raised
    THEN error_result(sentence1, sentence2, reply.error)
    ELSE classify(sentence1, sentence2, reply,
                  detect_numeric_mismatch(ctx, sentence1, sentence2))

(***************************************************************************)
(* analyze_cross_section                                                   *)
(***************************************************************************)
\* [s.strip() for s in sentences if s.strip()] over the tokenizer's chunks
RECURSIVE split_into_sentences(_)
split_into_sentences(chunks) ==
    IF chunks = <<>> THEN <<>>
    ELSE IF Strip(chunks[1]) # ""
         THEN <<Strip(chunks[1])>> \o split_into_sentences(Tail(chunks))
         ELSE split_into_sentences(Tail(chunks))

\* itertools.combinations(seq, 2) from the index pair (i, j) on
RECURSIVE CombinationsFrom(_, _, _)
CombinationsFrom(seq, i, j) ==
    IF i >= Len(seq) THEN <<>>
    ELSE IF j > Len(seq) THEN CombinationsFrom(seq, i + 1, i + 2)
    ELSE <<<<seq[i], seq[j]>>>> \o CombinationsFrom(seq, i, j + 1)

\* As combinations, pairing each element with its successor only.
combinations_adjacent(seq) == [k \in 1..(Len(seq) - 1) |-> <<seq[k], seq[k + 1]>>]

combinations(seq) == CombinationsFrom(seq, 1, 2)

\* As is_contradiction, taking every label but ENTAILMENT and NEUTRAL.
is_contradiction_loose(result) ==
    result.label \notin {"ENTAILMENT", "NEUTRAL"} \/ result.numeric_analysis.mismatch

\* result["label"] == "CONTRADICTION" or result["numeric_analysis"]["mismatch"]
is_contradiction(result) ==
    result.label = "CONTRADICTION" \/ result.numeric_analysis.mismatch

numeric_issues_of(contras) == SelectSeq(contras, LAMBDA c : c.numeric_analysis.mismatch)

\* As logical_issues_of, selecting by the label alone.
logical_issues_of_by_label(contras) ==
    SelectSeq(contras, LAMBDA c : c.label = "CONTRADICTION")

logical_issues_of(contras) ==
    SelectSeq(contras, LAMBDA c : c.label = "CONTRADICTION" /\ ~c.numeric_analysis.mismatch)

numeric_line(issue) ==
    "- " \o issue.numeric_analysis.reason \o "\n  \"" \o issue.sentence1
         \o "\" vs.\n  \"" \o issue.sentence2 \o "\""

logical_line(issue) ==
    "- " \o issue.suggestion \o "\n  \"" \o issue.sentence1
         \o "\" vs.\n  \"" \o issue.sentence2 \o "\""

RECURSIVE MapLines(_, _)
MapLines(issues, numeric) ==
    IF issues = <<>> THEN <<>>
    ELSE <<IF numeric THEN numeric_line(issues[1]) ELSE logical_line(issues[1])>>
         \o MapLines(Tail(issues), numeric)

no_issues_message == "No inconsistencies detected; the document aligns logically."
not_enough_message == "Not enough text to check."

section(header, lines) == IF lines # <<>> THEN <<header>> \o lines ELSE <<>>

\* As build_summary_lines, with the logical section put first.
build_summary_lines_logical_first(contras) ==
    IF contras = <<>> THEN <<>>
    ELSE <<"Inconsistencies detected:">>
         \o section("\nLogical Contradictions:", MapLines(logical_issues_of(contras), FALSE))
         \o section("\nNumeric Inconsistencies:", MapLines(numeric_issues_of(contras), TRUE))

\* summary_lines (built only when contradictions is not empty)
build_summary_lines(contras) ==
    IF contras = <<>> THEN <<>>
    ELSE <<"Inconsistencies detected:">>
         \o section("\nNumeric Inconsistencies:", MapLines(numeric_issues_of(contras), TRUE))
         \o section("\nLogical Contradictions:", MapLines(logical_issues_of(contras), FALSE))

\* contradictions after the loop body has seen result
append_contradiction(contras, result) ==
    IF is_contradiction(result) THEN Append(contras, result) ELSE contras

\* As render_summary, with the header written before the list is looked at.
render_summary_header_first(contras, lines) ==
    IF contras # <<>> THEN Join(lines) ELSE "Inconsistencies detected:\n" \o no_issues_message

\* summary
render_summary(contras, lines) == IF contras # <<>> THEN Join(lines) ELSE no_issues_message


(***************************************************************************)
(* The state machine                                                       *)
(***************************************************************************)
MaxSentences == 3

Documents == UNION {[1..n -> Chunks] : n \in 0..MaxSentences}

NoResult == [mismatch |-> FALSE, reason |-> ""]
NoCalls == [detect |-> 0, oracle |-> 0]

\* no call of analyze_cross_section has returned yet
NoCall == [document |-> <<>>, consistency_results |-> <<>>, issues_report |-> ""]

\* the classifier is left open: a call of nli_pipeline may do anything it can do
AnyModel == "any"

\* call_gemini_api has not been called
NotCalled ==
    /\ attempt = 0
    /\ delay = 0
    /\ http_log = <<>>
    /\ sleeps = <<>>
    /\ api_result = ""

Init ==
    /\ pc = "load"
    /\ CONTEXTS = CONTEXTS_literal
    /\ document = <<>>
    /\ sentences = <<>>
    /\ pos = 0
    /\ results = <<>>
    /\ contradictions = <<>>
    /\ summary_lines = <<>>
    /\ issues_report = ""
    /\ oracle_log = <<>>
    /\ calls = NoCalls
    /\ sent1 = ""
    /\ sent2 = ""
    /\ numeric_result = NoResult
    /\ nli_model = AnyModel
    /\ first_call = NoCall
    /\ NotCalled

\* Import of the module: the last statement runs initialize_contexts().  With the
\* WordNet corpus missing, wordnet.synsets raises and the import fails.
LoadModule ==
    /\ pc = "load"
    /\ \E wordnet_loaded \in BOOLEAN :
          IF wordnet_loaded
          THEN /\ CONTEXTS' = initialize_contexts(CONTEXTS)
               /\ pc' = "idle"
          ELSE /\ CONTEXTS' = CONTEXTS
               /\ pc' = "import_failed"
    /\ UNCHANGED <<document, sentences, pos, results, contradictions, summary_lines,
                   issues_report, oracle_log, calls, sent1, sent2, numeric_result>>
    /\ UNCHANGED <<rerun_vars, gemini_vars>>

\* As Analyze, returning early only when there is no sentence at all: with one
\* sentence the loop runs over no pair and the report is built from nothing.
AnalyzeEmptyOnly ==
    /\ pc = "idle"
    /\ \E doc \in Documents :
          /\ document' = doc
          /\ sentences' = split_into_sentences(doc)
          /\ IF Len(split_into_sentences(doc)) < 1
             THEN /\ issues_report' = not_enough_message
                  /\ pos' = 0
                  /\ pc' = "done"
             ELSE IF Len(split_into_sentences(doc)) = 1
             THEN /\ issues_report' = no_issues_message
                  /\ pos' = 0
                  /\ pc' = "done"
             ELSE /\ issues_report' = ""
                  /\ pos' = 1
                  /\ pc' = "loop"
    /\ results' = <<>>
    /\ contradictions' = <<>>
    /\ summary_lines' = <<>>
    /\ oracle_log' = <<>>
    /\ calls' = NoCalls
    /\ UNCHANGED <<CONTEXTS, sent1, sent2, numeric_result>>
    /\ UNCHANGED <<rerun_vars, gemini_vars>>

\* As Analyze, with results and contradictions kept in lists that outlive the call
\* (created once, not in each call).
AnalyzeSharedLists ==
    /\ pc = "idle"
    /\ \E doc \in Documents :
          /\ document' = doc
          /\ sentences' = split_into_sentences(doc)
          /\ IF Len(split_into_sentences(doc)) < 2
             THEN /\ issues_report' = not_enough_message
                  /\ pos' = 0
                  /\ pc' = "done"
             ELSE /\ issues_report' = ""
                  /\ pos' = 1
                  /\ pc' = "loop"
    /\ summary_lines' = <<>>
    /\ oracle_log' = <<>>
    /\ calls' = NoCalls
    /\ UNCHANGED <<CONTEXTS, results, contradictions, sent1, sent2, numeric_result>>
    /\ UNCHANGED <<rerun_vars, gemini_vars>>

\* analyze_cross_section(document_text) up to its loop; with fewer than two
\* sentences it returns here.
Analyze ==
    /\ pc = "idle"
    /\ \E doc \in Documents :
          /\ document' = doc
          /\ sentences' = split_into_sentences(doc)
          /\ IF Len(split_into_sentences(doc)) < 2
             THEN /\ issues_report' = not_enough_message
                  /\ pos' = 0
                  /\ pc' = "done"
             ELSE /\ issues_report' = ""
                  /\ pos' = 1
                  /\ pc' = "loop"
    /\ results' = <<>>
    /\ contradictions' = <<>>
    /\ summary_lines' = <<>>
    /\ oracle_log' = <<>>
    /\ calls' = NoCalls
    /\ UNCHANGED <<CONTEXTS, sent1, sent2, numeric_result>>
    /\ UNCHANGED <<rerun_vars, gemini_vars>>

\* As CheckPair, with all_terms built by extending the units list of the first
\* context in place instead of concatenating into a new list.
CheckPairAliased ==
    /\ pc = "loop"
    /\ \E reply \in OracleReplies :
          /\ results' = Append(results,
                               check_consistency(CONTEXTS,
                                                 combinations(sentences)[pos][1],
                                                 combinations(sentences)[pos][2],
                                                 reply))
          /\ oracle_log' = Append(oracle_log, reply)
    /\ contradictions' = append_contradiction(contradictions, results'[pos])
    /\ calls' = [detect |-> calls.detect + 1, oracle |-> calls.oracle + 1]
    /\ IF pos = Len(combinations(sentences))
       THEN /\ summary_lines' = build_summary_lines(contradictions')
            /\ issues_report' = render_summary(contradictions', summary_lines')
            /\ pos' = 0
            /\ pc' = "done"
       ELSE /\ pos' = pos + 1
            /\ UNCHANGED <<summary_lines, issues_report, pc>>
    /\ CONTEXTS' = [CONTEXTS EXCEPT !["financial"].units =
                        @ \o CONTEXTS["financial"].keywords]
    /\ UNCHANGED <<document, sentences, sent1, sent2, numeric_result>>
    /\ UNCHANGED <<rerun_vars, gemini_vars>>

\* One iteration of the loop over combinations(sentences, 2); the last one goes
\* on to build the report and return.
CheckPair ==
    /\ pc = "loop"
    /\ \E reply \in OracleReplies :
          /\ results' = Append(results,
                               check_consistency(CONTEXTS,
                                                 combinations(sentences)[pos][1],
                                                 combinations(sentences)[pos][2],
                                                 reply))
          /\ oracle_log' = Append(oracle_log, reply)
    /\ contradictions' = append_contradiction(contradictions, results'[pos])
    /\ calls' = [detect |-> calls.detect + 1, oracle |-> calls.oracle + 1]
    /\ IF pos = Len(combinations(sentences))
       THEN /\ summary_lines' = build_summary_lines(contradictions')
            /\ issues_report' = render_summary(contradictions', summary_lines')
            /\ pos' = 0
            /\ pc' = "done"
       ELSE /\ pos' = pos + 1
            /\ UNCHANGED <<summary_lines, issues_report, pc>>
    /\ UNCHANGED <<CONTEXTS, document, sentences, sent1, sent2, numeric_result>>
    /\ UNCHANGED <<rerun_vars, gemini_vars>>

\* The caller has taken the returned dict; the next call starts afresh.
Return ==
    /\ pc = "done"
    /\ pc' = "idle"
    /\ document' = <<>>
    /\ sentences' = <<>>
    /\ results' = <<>>
    /\ contradictions' = <<>>
    /\ summary_lines' = <<>>
    /\ issues_report' = ""
    /\ oracle_log' = <<>>
    /\ calls' = NoCalls
    /\ UNCHANGED <<CONTEXTS, pos, sent1, sent2, numeric_result>>
    /\ UNCHANGED <<rerun_vars, gemini_vars>>

Next == LoadModule \/ Analyze \/ CheckPair \/ Return

Spec == Init /\ [][Next]_vars

(***************************************************************************)
(* analyze_cross_section called twice in one process on the same text,     *)
(* with a classifier that answers the same input the same way.             *)
(***************************************************************************)
InitTwice ==
    /\ pc = "load"
    /\ CONTEXTS = CONTEXTS_literal
    /\ document = <<>>
    /\ sentences = <<>>
    /\ pos = 0
    /\ results = <<>>
    /\ contradictions = <<>>
    /\ summary_lines = <<>>
    /\ issues_report = ""
    /\ oracle_log = <<>>
    /\ calls = NoCalls
    /\ sent1 = ""
    /\ sent2 = ""
    /\ numeric_result = NoResult
    /\ nli_model \in nli_models
    /\ first_call = NoCall
    /\ NotCalled

\* the first call, on any document
AnalyzeFirst ==
    /\ first_call = NoCall
    /\ Analyze

\* an iteration of the loop in which nli_pipeline answers as the loaded classifier
\* does
CheckPairLoaded ==
    /\ CheckPair
    /\ oracle_log'[pos] = nli_pipeline(nli_model, combinations(sentences)[pos][1],
                                       combinations(sentences)[pos][2])

\* The first call returns; the caller keeps the dict.  The lists the call built
\* are still where it left them.
ReturnFirst ==
    /\ pc = "done"
    /\ first_call = NoCall
    /\ first_call' = [document            |-> document,
                      consistency_results |-> results,
                      issues_report       |-> issues_report]
    /\ pc' = "idle"
    /\ UNCHANGED <<CONTEXTS, document, sentences, pos, results, contradictions,
                   summary_lines, issues_report, oracle_log, calls,
                   sent1, sent2, numeric_result, nli_model, gemini_vars>>

\* the second call, on the document of the first
AnalyzeAgain ==
    /\ first_call # NoCall
    /\ Analyze
    /\ document' = first_call.document

NextTwice == LoadModule \/ AnalyzeFirst \/ CheckPairLoaded \/ ReturnFirst \/ AnalyzeAgain

SpecTwice == InitTwice /\ [][NextTwice]_vars

(***************************************************************************)
(* call_gemini_api (rewrite_model.py).  The prompts and the schema go into *)
(* the payload only; what the call does next depends on the environment    *)
(* variable and on what each requests.post does.                           *)
(***************************************************************************)
max_retries == 3

\* a dict with no key
EmptyDict == [k \in {} |-> ""]

\* d.get(key, default)
Get(d, key, default) == IF key \in DOMAIN d THEN d[key] ELSE default

\* The bodies a response can carry: text that is not JSON, or a JSON object.
NotJson == [json |-> FALSE, value |-> EmptyDict]

Candidate(text) == [content |-> [parts |-> <<[text |-> text]>>]]

Bodies ==
    { NotJson,
      [json |-> TRUE, value |-> [candidates |-> <<Candidate("  Revised text. \n")>>]],
      [json |-> TRUE, value |-> [candidates |-> <<Candidate("Error: not sure.")>>]],
      [json |-> TRUE, value |-> [candidates |-> <<>>]],
      [json |-> TRUE, value |-> [candidates |-> <<[finishReason |-> "SAFETY"]>>]],
      [json |-> TRUE, value |-> [error |-> "quota"]] }

\* What one requests.post can do: raise, or return a response.
ConnectionError == [raised |-> TRUE, status_code |-> 0, body |-> NotJson]

PostOutcomes ==
    {ConnectionError}
    \cup {[raised |-> FALSE, status_code |-> st, body |-> b] : st \in {200, 429, 500}, b \in Bodies}

\* The lines under status 200: response.json(), the chain of get and [0], strip().
\* An exception of any of them is caught as one of the request is.
ReadText(body) ==
    IF ~body.json THEN [raised |-> TRUE, text |-> ""]
    ELSE LET candidates == Get(body.value, "candidates", <<EmptyDict>>)
         IN  IF candidates = <<>> THEN [raised |-> TRUE, text |-> ""]
             ELSE LET parts == Get(Get(candidates[1], "content", EmptyDict),
                                   "parts", <<EmptyDict>>)
                  IN  IF parts = <<>> THEN [raised |-> TRUE, text |-> ""]
                      ELSE [raised |-> FALSE, text |-> Strip(Get(parts[1], "text", ""))]

key_missing_message ==
    "Error: API key not configured on server. Please set GEMINI_API_KEY in .env file."
unable_message == "Error: Unable to generate rewrite."
all_failed_message == "Error: All retry attempts failed."

InitGemini ==
    /\ pc = "gemini_call"
    /\ CONTEXTS = CONTEXTS_literal
    /\ document = <<>>
    /\ sentences = <<>>
    /\ pos = 0
    /\ results = <<>>
    /\ contradictions = <<>>
    /\ summary_lines = <<>>
    /\ issues_report = ""
    /\ oracle_log = <<>>
    /\ calls = NoCalls
    /\ sent1 = ""
    /\ sent2 = ""
    /\ numeric_result = NoResult
    /\ nli_model = AnyModel
    /\ first_call = NoCall
    /\ NotCalled

\* call_gemini_api up to its loop; without the key it returns here
CallGeminiApi ==
    /\ pc = "gemini_call"
    /\ \E apiKey \in {"", "k3y"} :
          IF apiKey = ""
          THEN /\ api_result' = key_missing_message
               /\ pc' = "gemini_returned"
               /\ UNCHANGED <<attempt, delay>>
          ELSE /\ attempt' = 0
               /\ delay' = 1
               /\ pc' = "gemini_loop"
               /\ UNCHANGED api_result
    /\ UNCHANGED <<http_log, sleeps>>
    /\ UNCHANGED <<CONTEXTS, document, sentences, pos, results, contradictions,
                   summary_lines, issues_report, oracle_log, calls,
                   sent1, sent2, numeric_result, rerun_vars>>

\* As Attempt, backing off after a response with another status as after an
\* exception.
AttemptBackoffOnStatus ==
    /\ pc = "gemini_loop"
    /\ \E outcome \in PostOutcomes :
          /\ http_log' = Append(http_log, outcome)
          /\ IF ~outcome.raised /\ outcome.status_code = 200 /\ ~ReadText(outcome.body).raised
             THEN /\ api_result' = ReadText(outcome.body).text
                  /\ pc' = "gemini_returned"
                  /\ UNCHANGED <<attempt, delay, sleeps>>
             ELSE IF attempt < max_retries - 1
                  THEN /\ sleeps' = Append(sleeps, delay)
                       /\ delay' = delay * 2
                       /\ attempt' = attempt + 1
                       /\ UNCHANGED <<api_result, pc>>
                  ELSE /\ api_result' = unable_message
                       /\ pc' = "gemini_returned"
                       /\ UNCHANGED <<attempt, delay, sleeps>>
    /\ UNCHANGED <<CONTEXTS, document, sentences, pos, results, contradictions,
                   summary_lines, issues_report, oracle_log, calls,
                   sent1, sent2, numeric_result, rerun_vars>>

\* One iteration of the loop over range(max_retries): the request, what follows
\* it, and the return when the iteration or the loop ends the call.
Attempt ==
    /\ pc = "gemini_loop"
    /\ \E outcome \in PostOutcomes :
          /\ http_log' = Append(http_log, outcome)
          /\ IF ~outcome.raised /\ outcome.status_code = 200 /\ ~ReadText(outcome.body).raised
             THEN \* return text_part.strip()
                  /\ api_result' = ReadText(outcome.body).text
                  /\ pc' = "gemini_returned"
                  /\ UNCHANGED <<attempt, delay, sleeps>>
             ELSE IF ~outcome.raised /\ outcome.status_code # 200
             THEN \* the else branch prints; the loop goes on, or ends
                  IF attempt + 1 < max_retries
                  THEN /\ attempt' = attempt + 1
                       /\ UNCHANGED <<delay, sleeps, api_result, pc>>
                  ELSE /\ api_result' = all_failed_message
                       /\ pc' = "gemini_returned"
                       /\ UNCHANGED <<attempt, delay, sleeps>>
             ELSE \* except Exception
                  IF attempt < max_retries - 1
                  THEN /\ sleeps' = Append(sleeps, delay)
                       /\ delay' = delay * 2
                       /\ attempt' = attempt + 1
                       /\ UNCHANGED <<api_result, pc>>
                  ELSE /\ api_result' = unable_message
                       /\ pc' = "gemini_returned"
                       /\ UNCHANGED <<attempt, delay, sleeps>>
    /\ UNCHANGED <<CONTEXTS, document, sentences, pos, results, contradictions,
                   summary_lines, issues_report, oracle_log, calls,
                   sent1, sent2, numeric_result, rerun_vars>>

NextGemini == CallGeminiApi \/ Attempt

\* The call runs on its own thread of control: a step that can be taken is taken.
SpecGemini == InitGemini /\ [][NextGemini]_vars /\ WF_vars(NextGemini)

(***************************************************************************)
(* detect_numeric_mismatch on its own: the pair is drawn at the start and  *)
(* the function is applied once, with CONTEXTS as the import leaves it.    *)
(***************************************************************************)
InitDetect ==
    /\ pc = "detect"
    /\ CONTEXTS = initialize_contexts(CONTEXTS_literal)
    /\ sent1 \in DetectSentences
    /\ sent2 \in DetectSentences
    /\ numeric_result = NoResult
    /\ document = <<>>
    /\ sentences = <<>>
    /\ pos = 0
    /\ results = <<>>
    /\ contradictions = <<>>
    /\ summary_lines = <<>>
    /\ issues_report = ""
    /\ oracle_log = <<>>
    /\ calls = NoCalls
    /\ nli_model = AnyModel
    /\ first_call = NoCall
    /\ NotCalled

Detect ==
    /\ pc = "detect"
    /\ numeric_result' = detect_numeric_mismatch(CONTEXTS, sent1, sent2)
    /\ pc' = "detected"
    /\ UNCHANGED <<CONTEXTS, document, sentences, pos, results, contradictions,
                   summary_lines, issues_report, oracle_log, calls, sent1, sent2>>
    /\ UNCHANGED <<rerun_vars, gemini_vars>>

NextDetect == Detect

SpecDetect == InitDetect /\ [][NextDetect]_vars

(***************************************************************************)
(* Properties                                                              *)
(***************************************************************************)
\* number of unordered pairs of n positions
NumPairs(n) == (n * (n - 1)) \div 2

\* place of the pair of positions (i, j), i < j, in the canonical order
\* (1,2),(1,3),...,(1,n),(2,3),...
Rank(i, j, n) == (i - 1) * n - (i * (i - 1)) \div 2 + (j - i)

Returned == pc = "done"

IsErrorVerdict(v) == Len(v) >= 6 /\ SubSeq(v, 1, 6) = "Error:"

ContradictionVerdicts == {"Numeric Mismatch", "Logical Contradiction"}

\* what the numeric mismatch detector reports for the pair of a result
DetectorSays(r) == detect_numeric_mismatch(CONTEXTS, r.sentence1, r.sentence2)

Marker == "Inconsistencies detected"

C2_NumericPrecedesOracle ==
    \A k \in 1..Len(results) :
        DetectorSays(results[k]).mismatch =>
            /\ results[k].verdict = "Numeric Mismatch"
            /\ Returned => Contains(issues_report, DetectorSays(results[k]).reason)

\* C3: the verdict of every result is the cascade over what the result records:
\* Numeric Mismatch exactly when the recorded flag is set; otherwise Logical
\* Contradiction, Consistent or Neutral by the oracle's label, and Error, with label
\* ERROR, exactly when the oracle call failed.
C3_VerdictCascade ==
    \A k \in 1..Len(results) :
        LET r == results[k]
            o == oracle_log[k]
        IN  /\ (r.verdict = "Numeric Mismatch") <=> r.numeric_analysis.mismatch
            /\ (r.label = "ERROR") <=> o.raised
            /\ ~r.numeric_analysis.mismatch =>
                  IF r.label = "ERROR" THEN IsErrorVerdict(r.verdict)
                  ELSE IF o.label = "CONTRADICTION" THEN r.verdict = "Logical Contradiction"
                  ELSE IF o.label = "ENTAILMENT" THEN r.verdict = "Consistent"
                  ELSE r.verdict = "Neutral"

\* one analysis with all of: a numeric mismatch under a CONTRADICTION label, a
\* logical contradiction and a failed call
C3_Witness ==
    /\ Returned
    /\ \E k \in 1..Len(results) :
          results[k].verdict = "Numeric Mismatch" /\ oracle_log[k].label = "ENTAILMENT"
    /\ \E k \in 1..Len(results) : results[k].verdict = "Logical Contradiction"
    /\ \E k \in 1..Len(results) : IsErrorVerdict(results[k].verdict)

\* C4: whatever calls of the oracle fail, the analysis returns one result per pair;
\* a pair whose call failed and for which the detector reports no mismatch is
\* labelled ERROR with confidence 0 and is no contradiction; every other pair has
\* the result it has when no call fails (its own reply when its call succeeded,
\* the reply of a successful call when it failed).
C4_FailuresIsolated ==
    /\ (Returned /\ Len(sentences) >= 2) => Len(results) = NumPairs(Len(sentences))
    /\ \A k \in 1..Len(results) :
          LET r == results[k]
              o == oracle_log[k]
          IN  IF o.raised /\ ~DetectorSays(r).mismatch
              THEN /\ r.label = "ERROR"
                   /\ r.confidence = 0
                   /\ \A c \in 1..Len(contradictions) : contradictions[c] # r
              ELSE \E reply \in OracleReplies :
                      /\ ~reply.raised
                      /\ ~o.raised => reply = o
                      /\ r = check_consistency(CONTEXTS, r.sentence1, r.sentence2, reply)

\* C5: the contradictions list holds exactly the results whose verdict is Numeric
\* Mismatch or Logical Contradiction, in the order of the results.
C5_ContradictionsSubset ==
    contradictions = SelectSeq(results, LAMBDA r : r.verdict \in ContradictionVerdicts)

\* an analysis returned with a contradiction, an Error and a Neutral result
C5_Witness ==
    /\ Returned
    /\ contradictions # <<>>
    /\ \E k \in 1..Len(results) : IsErrorVerdict(results[k].verdict)
    /\ \E k \in 1..Len(results) : results[k].verdict = "Neutral"

\* C6: the returned report contains the marker exactly when some result is a
\* contradiction; with two or more sentences and none it is the fixed
\* no-inconsistencies message, with fewer than two the informational message.
C6_MarkerIffContradiction ==
    Returned =>
        /\ Contains(issues_report, Marker) <=>
              \E k \in 1..Len(results) : results[k].verdict \in ContradictionVerdicts
        /\ (Len(sentences) >= 2
              /\ \A k \in 1..Len(results) : results[k].verdict \notin ContradictionVerdicts)
           => issues_report = no_issues_message
        /\ Len(sentences) < 2 => issues_report = not_enough_message

\* a report without the marker for a document whose text holds the marker
C6_Witness ==
    /\ Returned
    /\ Len(sentences) >= 2
    /\ \E i \in 1..Len(sentences) : Contains(sentences[i], Marker)
    /\ issues_report = no_issues_message

\* C7: the report is the header, then the numeric section, then the logical
\* section; a section is its header and one entry per issue, in the order of the
\* results, and is left out when it has no issue.
C7_SectionOrder ==
    (Returned /\ contradictions # <<>>) =>
        LET numeric == SelectSeq(results, LAMBDA r : r.verdict = "Numeric Mismatch")
            logical == SelectSeq(results, LAMBDA r : r.verdict = "Logical Contradiction")
        IN  /\ summary_lines =
                  <<"Inconsistencies detected:">>
                  \o (IF numeric = <<>> THEN <<>>
                      ELSE <<"\nNumeric Inconsistencies:">>
                           \o [k \in 1..Len(numeric) |-> numeric_line(numeric[k])])
                  \o (IF logical = <<>> THEN <<>>
                      ELSE <<"\nLogical Contradictions:">>
                           \o [k \in 1..Len(logical) |-> logical_line(logical[k])])
            /\ issues_report = Join(summary_lines)

\* a logical contradiction found before two different numeric mismatches
C7_Witness ==
    /\ Returned
    /\ Len(results) = 3
    /\ results[1].verdict = "Logical Contradiction"
    /\ results[2].verdict = "Numeric Mismatch"
    /\ results[3].verdict = "Numeric Mismatch"
    /\ results[2] # results[3]

\* C8: with fewer than two sentences the analysis returns no result and the
\* informational message, and calls neither the detector nor the oracle.
C8_ShortCircuit ==
    (Returned /\ Len(split_into_sentences(document)) < 2) =>
        /\ results = <<>>
        /\ issues_report = not_enough_message
        /\ calls = NoCalls
        /\ oracle_log = <<>>

\* a document of two chunks that holds a single sentence
C8_Witness ==
    /\ Returned
    /\ Len(document) = 2
    /\ Len(sentences) = 1
    /\ issues_report = not_enough_message

\* a context has context in a sentence: one of its terms occurs in it, case ignored
ContextIn(c, sent) ==
    \E term \in all_terms_of(CONTEXTS[c]) : Contains(Lower(sent), Lower(term))

SharedContext(c) == ContextIn(c, sent1) /\ ContextIn(c, sent2)

Priority == <<"financial", "temporal", "performance">>

Detected == pc = "detected"

\* C9: a reported mismatch names the first context, in the order financial,
\* temporal, performance, that both sentences have context for.
C9_FirstSharedContext ==
    (Detected /\ numeric_result.mismatch) =>
        \E k \in 1..Len(Priority) :
            /\ Contains(numeric_result.reason, "in " \o Priority[k] \o " context:")
            /\ SharedContext(Priority[k])
            /\ \A h \in 1..(k - 1) : ~SharedContext(Priority[h])

\* temporal is named although performance is shared too, financial not being shared
C9_Witness ==
    /\ Detected
    /\ numeric_result.mismatch
    /\ Contains(numeric_result.reason, "in temporal context:")
    /\ SharedContext("performance")
    /\ ~SharedContext("financial")

\* the decision of a context that both sentences have context for: the two sets of
\* numbers differ
Decision(s, t) == Range(nums_conv(s)) # Range(nums_conv(t))

\* C10: when both sentences have numbers, the result is the decision of every
\* context that both sentences have context for, so that no context checked later
\* changes the decision of one checked earlier.
C10_NoOverride ==
    (Detected /\ nums_conv(sent1) # <<>> /\ nums_conv(sent2) # <<>>) =>
        \A k \in 1..Len(Priority) :
            SharedContext(Priority[k]) => numeric_result.mismatch = Decision(sent1, sent2)

\* financial decides a mismatch and performance, checked last, is not shared
C10_Witness ==
    /\ Detected
    /\ numeric_result.mismatch
    /\ SharedContext("financial")
    /\ SharedContext("temporal")
    /\ ~SharedContext("performance")

\* financial decides that there is no mismatch and temporal is shared as well
C10_WitnessFalse ==
    /\ Detected
    /\ sent1 # sent2
    /\ nums_conv(sent1) # <<>>
    /\ SharedContext("financial")
    /\ SharedContext("temporal")
    /\ ~numeric_result.mismatch

\* the import has run to its last statement, one way or the other
Loaded == pc # "load"

\* the analysis can be called, or is running
Functional == pc \in {"idle", "loop", "done"}

\* C11: when the lexical database is unavailable during initialize_contexts, the
\* initialization still completes: every context keeps its units and keywords, with
\* an empty or partial set of synonyms, and the analysis can be run afterwards.
C11_DegradedNotFatal ==
    Loaded =>
        /\ Functional
        /\ \A c \in DOMAIN CONTEXTS :
              /\ CONTEXTS[c].units = CONTEXTS_literal[c].units
              /\ CONTEXTS[c].keywords = CONTEXTS_literal[c].keywords
              /\ CONTEXTS[c].synonyms \subseteq initialize_contexts(CONTEXTS_literal)[c].synonyms

\* the sets of normalized numbers of the two sentences
Numbers1 == Range(nums_conv(sent1))
Numbers2 == Range(nums_conv(sent2))

SomeSharedContext == \E k \in 1..Len(Priority) : SharedContext(Priority[k])

\* C13: the detector reports a mismatch exactly when both sentences have numbers, the
\* two sets of numbers differ and some context is shared by both sentences; with no
\* number in one of them the reason is "No numbers to compare", and in every other
\* case without mismatch "No contextual numeric mismatch detected".
C13_MismatchIff ==
    Detected =>
        /\ numeric_result.mismatch <=>
              (Numbers1 # {} /\ Numbers2 # {} /\ Numbers1 # Numbers2 /\ SomeSharedContext)
        /\ (Numbers1 = {} \/ Numbers2 = {}) =>
              numeric_result.reason = "No numbers to compare"
        /\ (~numeric_result.mismatch /\ Numbers1 # {} /\ Numbers2 # {}) =>
              numeric_result.reason = "No contextual numeric mismatch detected"

\* a mismatch between a set of numbers and a strict superset of it
C13_Witness ==
    /\ Detected
    /\ numeric_result.mismatch
    /\ Numbers2 \subseteq Numbers1
    /\ Numbers2 # Numbers1

\* no numbers in one sentence although both share a context and the other has some
C13_WitnessNoNumbers ==
    /\ Detected
    /\ Numbers1 = {}
    /\ Numbers2 # {}
    /\ SomeSharedContext
    /\ numeric_result.reason = "No numbers to compare"

\* C14: the numeric comparison recorded in a result is the detector's output for the
\* pair whatever the oracle returned or however it failed, and the label recorded is
\* the oracle's label for the pair, ERROR when the call failed, whatever the detector
\* reports.
C14_DetectorOracleIndependent ==
    \A k \in 1..Len(results) :
        /\ results[k].numeric_analysis = DetectorSays(results[k])
        /\ results[k].label = IF oracle_log[k].raised THEN "ERROR" ELSE oracle_log[k].label

NumericHeader == "\nNumeric Inconsistencies:"
LogicalHeader == "\nLogical Contradictions:"

\* place of a header in the lines of the report, 0 when it is not there
HeaderAt(header) ==
    IF \E i \in 1..Len(summary_lines) : summary_lines[i] = header
    THEN CHOOSE i \in 1..Len(summary_lines) : summary_lines[i] = header
    ELSE 0

\* places of the entries of the section whose header is at place h, the next header
\* being at place n (0 when there is none)
EntriesOf(h, n) ==
    IF h = 0 THEN {}
    ELSE (h + 1)..(IF n = 0 THEN Len(summary_lines) ELSE n - 1)

\* the end of an entry that lists the pair of c
PairQuote(c) == "\n  \"" \o c.sentence1 \o "\" vs.\n  \"" \o c.sentence2 \o "\""

EndsWith(line, suffix) ==
    /\ Len(line) >= Len(suffix)
    /\ SubSeq(line, Len(line) - Len(suffix) + 1, Len(line)) = suffix

\* how many entries among the places E list the pair of c
Listed(E, c) ==
    LET quote == PairQuote(c)
    IN  Cardinality({i \in E : EndsWith(summary_lines[i], quote)})

\* how many contradictions are on the pair of c
Occurrences(c) ==
    Cardinality({k \in 1..Len(contradictions) :
                    /\ contradictions[k].sentence1 = c.sentence1
                    /\ contradictions[k].sentence2 = c.sentence2})

\* C15: every contradiction is listed in exactly one of the numeric section and the
\* logical section of the report, once for each time it occurs; one with a numeric
\* mismatch is listed in the numeric section only, whatever the oracle's label.
C15_SectionsPartition ==
    Returned =>
        LET NumericEntries == EntriesOf(HeaderAt(NumericHeader), HeaderAt(LogicalHeader))
            LogicalEntries == EntriesOf(HeaderAt(LogicalHeader), 0)
        IN  /\ \A k \in 1..Len(contradictions) :
                  IF contradictions[k].numeric_analysis.mismatch
                  THEN /\ Listed(NumericEntries, contradictions[k])
                            = Occurrences(contradictions[k])
                       /\ Listed(LogicalEntries, contradictions[k]) = 0
                  ELSE /\ Listed(NumericEntries, contradictions[k]) = 0
                       /\ Listed(LogicalEntries, contradictions[k])
                            = Occurrences(contradictions[k])
            /\ Cardinality(NumericEntries) + Cardinality(LogicalEntries)
                  = Len(contradictions)

\* a numeric mismatch on which the oracle said CONTRADICTION, next to a logical
\* contradiction
C15_Witness ==
    /\ Returned
    /\ \E k \in 1..Len(results) :
          /\ results[k].verdict = "Numeric Mismatch"
          /\ oracle_log[k].label = "CONTRADICTION"
    /\ \E k \in 1..Len(results) : results[k].verdict = "Logical Contradiction"

\* C16: once the import has run initialize_contexts, no step of an analysis, a failed
\* oracle call included, changes CONTEXTS.
C16_ContextsReadOnly == [][Loaded => CONTEXTS' = CONTEXTS]_vars

\* an analysis returned after a failed oracle call and a detected mismatch, with the
\* contexts as the import left them
C16_Witness ==
    /\ Returned
    /\ \E k \in 1..Len(results) : oracle_log[k].raised
    /\ \E k \in 1..Len(results) : results[k].numeric_analysis.mismatch
    /\ CONTEXTS = initialize_contexts(CONTEXTS_literal)

\* the second call has returned
ReturnedAgain == Returned /\ first_call # NoCall

\* C12: a second call of analyze_cross_section on the text of the first, with the
\* classifier and the contexts unchanged, returns the consistency_results and the
\* issues_report the first call returned.
C12_SecondCallSame ==
    ReturnedAgain =>
        /\ document = first_call.document
        /\ results = first_call.consistency_results
        /\ issues_report = first_call.issues_report

\* two calls on three sentences that found a numeric mismatch, a logical
\* contradiction and a failed oracle call
C12_Witness ==
    /\ ReturnedAgain
    /\ Len(results) = 3
    /\ \E k \in 1..3 : results[k].verdict = "Numeric Mismatch"
    /\ \E k \in 1..3 : results[k].verdict = "Logical Contradiction"
    /\ \E k \in 1..3 : results[k].label = "ERROR"

GeminiReturned == pc = "gemini_returned"

\* the attempt ended in the except branch: the request raised, or the body of a
\* response with status 200 could not be read
AttemptRaised(outcome) ==
    outcome.raised \/ (outcome.status_code = 200 /\ ReadText(outcome.body).raised)

ReadableOk(outcome) ==
    ~outcome.raised /\ outcome.status_code = 200 /\ ~ReadText(outcome.body).raised

\* the attempts after which the call sleeps
SleepsDue ==
    Cardinality({i \in 1..Len(http_log) : AttemptRaised(http_log[i]) /\ i < 3})

C18_Safe ==
    /\ Len(http_log) <= 3
    /\ \A i \in 1..Len(http_log) :
          ReadableOk(http_log[i]) => (i = Len(http_log) /\ GeminiReturned)
    /\ pc \in {"gemini_call", "gemini_loop", "gemini_returned"}
    /\ GeminiReturned => api_result \in STRING
    /\ sleeps = SubSeq(<<1, 2>>, 1, SleepsDue)

\* C18: a call of call_gemini_api sends at most 3 requests, none after the first
\* response with status 200 whose body it can read, sleeps only after an attempt that
\* raised and is not the last, 1 second and then 2 (never after another status), and
\* ends by returning a string.
C18_BoundedRetries == []C18_Safe /\ <>GeminiReturned

\* an exception, then a status 500, then a readable response: one sleep of 1 second
C18_Witness ==
    /\ GeminiReturned
    /\ Len(http_log) = 3
    /\ http_log[1].raised
    /\ http_log[2].status_code = 500
    /\ ReadableOk(http_log[3])
    /\ sleeps = <<1>>

\* the contexts a reason names
ContextsNamed(reason) ==
    {c \in DOMAIN CONTEXTS : Contains(reason, "in " \o c \o " context:")}

\* C17: the detector applied to (a, b) and to (b, a) reports the same flag and names
\* the same context, and applied to (a, a) it reports no mismatch.
C17_SymmetricIrreflexive ==
    Detected =>
        /\ detect_numeric_mismatch(CONTEXTS, sent2, sent1).mismatch = numeric_result.mismatch
        /\ ContextsNamed(detect_numeric_mismatch(CONTEXTS, sent2, sent1).reason)
              = ContextsNamed(numeric_result.reason)
        /\ sent1 = sent2 => ~numeric_result.mismatch

\* a mismatch where only the second sentence has a context the first has not
C17_Witness ==
    /\ Detected
    /\ numeric_result.mismatch
    /\ \E k \in 1..Len(Priority) : ContextIn(Priority[k], sent2) /\ ~ContextIn(Priority[k], sent1)
    /\ Cardinality(Numbers1) # Cardinality(Numbers2)

\* a sentence with numbers and context compared with itself
C17_WitnessSame ==
    /\ Detected
    /\ sent1 = sent2
    /\ Numbers1 # {}
    /\ SomeSharedContext

=============================================================================
